---- MODULE Spec2Model ----
(***************************************************************************)
(* Model of the recipe-page pagination engine of the cookbook creator      *)
(* backend, pdf_service.measure_content_and_split, and of the render       *)
(* requests that drive it: main.download_recipe_pdf,                       *)
(* pdf_service.generate_or_load_pdf and pdf_service.generate_recipe_pdf.   *)
(*                                                                         *)
(* The coroutines run straight-line Python between their awaits; each      *)
(* action below is one await together with the code that runs until the    *)
(* next await.                                                             *)
(*                                                                         *)
(* Spec       : one call of measure_content_and_split on any bounded page. *)
(* SpecRender : concurrent render requests sharing the on-disk cache.      *)
(* SpecCache  : two requests for one video while the cache is cleared and  *)
(*              the recipe is extracted again.                             *)
(* SpecTokens : the public PDF links of main.py and their expiry.          *)
(* SpecSave   : save_recipe_to_collection, extract_visuals and the queue   *)
(*              of background tasks of the request.                        *)
(***************************************************************************)
EXTENDS Integers, Sequences, FiniteSets, TLC

(***************************************************************************)
(* Bounds of the model: the sizes of the rendered page.                    *)
(***************************************************************************)
MaxIngredientBlocks == 2
MaxInstructionItems == 2

(***************************************************************************)
(* Page geometry and fixed allowances of measure_content_and_split.        *)
(***************************************************************************)
PAGE_HEIGHT == 1123
PADDING_TOP_BOTTOM == 189
AVAILABLE_HEIGHT == PAGE_HEIGHT - PADDING_TOP_BOTTOM
CONTINUED_TITLE_HEIGHT == 80
CONTAINER_PADDING == 40
INSTRUCTIONS_TITLE_HEIGHT == 80

(***************************************************************************)
(* Pixel heights the rendered page can report.  They are chosen around the *)
(* thresholds of the code: 60 + 714 + 160 = AVAILABLE_HEIGHT (exact fit),  *)
(* 1000 > AVAILABLE_HEIGHT (a block taller than the page), an overflow of  *)
(* 714 leaves 934 - 714 - 120 = 100 for the instructions, and              *)
(* 80 + 20 = 100 is an exact fit of one instruction in that budget.        *)
(***************************************************************************)
ColumnHeightValues == {934, 935, 4000}
HeaderHeightValues == {60, 100}
IngredientHeightValues == {160, 714, 1000}
InstructionHeightValues == {20, 100, 9999}

VARIABLES
    pc,                             \* position in measure_content_and_split
    page,                           \* the rendered page the coroutine queries
    recipe,                         \* the recipe dict passed to the coroutine
    header_height,                  \* local, bound at line 134
    remaining_right_column_height,  \* local, bound at line 196 or 202
    split_data,                     \* local, bound at line 122, returned at 233
    result,                         \* "pending" until the coroutine returns
    tasks,                          \* render requests: locals of each coroutine
    pages,                          \* browser pages created by new_page()
    cache,                          \* cache directory: recipe.json, recipe.pdf
    clear_response,                 \* last answer of clear_cache_step, if any
    tokens,                         \* main._pdf_url_cache, the clock and the
                                    \* last answer of serve_public_pdf
    server                          \* one request of save_recipe_to_collection
                                    \* or extract_visuals, the files it looks
                                    \* at and its BackgroundTasks queue

engineVars == <<pc, page, recipe, header_height,
                remaining_right_column_height, split_data, result>>

renderVars == <<tasks, pages, cache, clear_response>>

vars == <<pc, page, recipe, header_height, remaining_right_column_height,
          split_data, result, tasks, pages, cache, clear_response,
          tokens, server>>

\* the state of the public PDF links and of the collection endpoints
serverVars == <<tokens, server>>

(***************************************************************************)
(* Helpers.                                                                *)
(***************************************************************************)
SeqsUpTo(S, n) == UNION {[1..k -> S] : k \in 0..n}

RECURSIVE SumHeights(_)
SumHeights(blocks) ==
    IF blocks = <<>> THEN 0
    ELSE Head(blocks).height + SumHeights(Tail(blocks))

\* number of '.ingredient-item' elements among the measured blocks
ItemCount(blocks) ==
    Cardinality({i \in 1..Len(blocks) : ~blocks[i].isSubheader})

\* Python list(range(a, b)): the integers a, a+1, ..., b-1 (empty if b <= a)
RangeInclusive(a, b) == [i \in 1..(IF b >= a THEN b - a + 1 ELSE 0) |-> a + i - 1]

Range(a, b) == [i \in 1..(IF b > a THEN b - a ELSE 0) |-> a + i - 1]

(***************************************************************************)
(* The page: what the four page.evaluate scripts return.                   *)
(***************************************************************************)
IngredientBlocks == [height : IngredientHeightValues, isSubheader : BOOLEAN]

Pages ==
    [ingredients_height  : ColumnHeightValues,
     header_height       : HeaderHeightValues,
     ingredient_heights  : SeqsUpTo(IngredientBlocks, MaxIngredientBlocks),
     instruction_heights : SeqsUpTo(InstructionHeightValues, MaxInstructionItems)]

\* recipes whose list lengths differ by at most one from what the page shows
RecipesFor(p) ==
    {[ingredients  |-> [i \in 1..n |-> "ingredient"],
      instructions |-> [i \in 1..m |-> "instruction"]] :
        n \in {k \in {ItemCount(p.ingredient_heights) - 1,
                      ItemCount(p.ingredient_heights),
                      ItemCount(p.ingredient_heights) + 1} : k >= 0},
        m \in {k \in {Len(p.instruction_heights) - 1,
                      Len(p.instruction_heights),
                      Len(p.instruction_heights) + 1} : k >= 0}}

(***************************************************************************)
(* Lines 122-128: the initial split_data.                                  *)
(***************************************************************************)
InitialSplitDataRightFilled(r, ingredients_overflow) ==
    [ingredients_overflow     |-> ingredients_overflow,
     left_column_ingredients  |-> Range(0, Len(r.ingredients)),
     right_column_ingredients |-> Range(0, Len(r.ingredients)),
     first_page_instructions  |-> Range(0, Len(r.instructions)),
     overflow_instructions    |-> <<>>]

InitialSplitData(r, ingredients_overflow) ==
    [ingredients_overflow     |-> ingredients_overflow,
     left_column_ingredients  |-> Range(0, Len(r.ingredients)),
     right_column_ingredients |-> <<>>,
     first_page_instructions  |-> Range(0, Len(r.instructions)),
     overflow_instructions    |-> <<>>]

(***************************************************************************)
(* Lines 157-172: the walk over the measured ingredient blocks.            *)
(***************************************************************************)
RECURSIVE WalkIngredients(_, _, _, _)
WalkIngredients(ingredient_heights, i, cumulative_height, ingredient_count) ==
    IF i > Len(ingredient_heights) THEN ingredient_count
    ELSE IF cumulative_height + ingredient_heights[i].height > AVAILABLE_HEIGHT
         THEN ingredient_count
         ELSE WalkIngredients(ingredient_heights, i + 1,
                  cumulative_height + ingredient_heights[i].height,
                  IF ingredient_heights[i].isSubheader
                  THEN ingredient_count ELSE ingredient_count + 1)

IngredientSplitNoHeader(ingredient_heights, hdr) ==
    WalkIngredients(ingredient_heights, 1, 0, 0)

IngredientSplitForced(ingredient_heights, hdr) ==
    LET c == WalkIngredients(ingredient_heights, 1, hdr, 0)
    IN  IF c = 0 THEN ItemCount(ingredient_heights) ELSE c

IngredientSplit(ingredient_heights, hdr) ==
    WalkIngredients(ingredient_heights, 1, hdr, 0)

(***************************************************************************)
(* Lines 174-175: the ingredient index lists.                              *)
(***************************************************************************)
LeftColumnIngredients(ingredient_split) == Range(0, ingredient_split)

RightColumnIngredientsFromZero(ingredient_split, r) ==
    Range(0, Len(r.ingredients))

RightColumnIngredients(ingredient_split, r) ==
    Range(ingredient_split, Len(r.ingredients))

(***************************************************************************)
(* Lines 181-192: height of the blocks after the split point.              *)
(***************************************************************************)
RECURSIVE WalkOverflow(_, _, _, _, _)
WalkOverflow(ingredient_heights, ingredient_split, i, ingredient_counter, overflow_height) ==
    IF i > Len(ingredient_heights) THEN overflow_height
    ELSE IF ~ingredient_heights[i].isSubheader
         THEN WalkOverflow(ingredient_heights, ingredient_split, i + 1,
                  ingredient_counter + 1,
                  IF ingredient_counter >= ingredient_split
                  THEN overflow_height + ingredient_heights[i].height
                  ELSE overflow_height)
         ELSE WalkOverflow(ingredient_heights, ingredient_split, i + 1,
                  ingredient_counter,
                  IF ingredient_counter >= ingredient_split
                  THEN overflow_height + ingredient_heights[i].height
                  ELSE overflow_height)

OverflowHeight(ingredient_heights, ingredient_split) ==
    WalkOverflow(ingredient_heights, ingredient_split, 1, 0, 0)

(***************************************************************************)
(* Lines 195-196: what is left of the right column for the instructions.   *)
(***************************************************************************)
RemainingAfterOverflow(overflow_height) ==
    AVAILABLE_HEIGHT
        - (overflow_height + CONTINUED_TITLE_HEIGHT + CONTAINER_PADDING)

(***************************************************************************)
(* Lines 214-226: the walk over the measured instructions and the          *)
(* include-all fallback.                                                   *)
(***************************************************************************)
RECURSIVE WalkInstructions(_, _, _, _, _)
WalkInstructions(instruction_heights, remaining, i, cumulative_height, instruction_split) ==
    IF i > Len(instruction_heights) THEN instruction_split
    ELSE IF cumulative_height + instruction_heights[i] > remaining
         THEN instruction_split
         ELSE WalkInstructions(instruction_heights, remaining, i + 1,
                  cumulative_height + instruction_heights[i], i)

InstructionSplitNoFallback(instruction_heights, remaining, r) ==
    WalkInstructions(instruction_heights, remaining, 1,
                     INSTRUCTIONS_TITLE_HEIGHT, 0)

InstructionSplitForceFirst(instruction_heights, remaining, r) ==
    LET s == WalkInstructions(instruction_heights, remaining, 1,
                              INSTRUCTIONS_TITLE_HEIGHT, 0)
    IN  IF s = 0 THEN (IF Len(r.instructions) > 0 THEN 1 ELSE 0) ELSE s

InstructionSplitNoTitle(instruction_heights, remaining, r) ==
    LET s == WalkInstructions(instruction_heights, remaining, 1, 0, 0)
    IN  IF s = 0 THEN Len(r.instructions) ELSE s

InstructionSplit(instruction_heights, remaining, r) ==
    LET s == WalkInstructions(instruction_heights, remaining, 1,
                              INSTRUCTIONS_TITLE_HEIGHT, 0)
    IN  IF s = 0 THEN Len(r.instructions) ELSE s

(***************************************************************************)
(* Lines 228-229: the instruction index lists.                             *)
(***************************************************************************)
FirstPageInstructions(instruction_split) == Range(0, instruction_split)

OverflowInstructionsSkipOne(instruction_split, r) ==
    Range(instruction_split + 1, Len(r.instructions))

OverflowInstructions(instruction_split, r) ==
    Range(instruction_split, Len(r.instructions))

(***************************************************************************)
(* State machine.                                                          *)
(***************************************************************************)
Init ==
    /\ pc = "measure_column"
    /\ page \in Pages
    /\ recipe \in RecipesFor(page)
    /\ header_height = 0
    /\ remaining_right_column_height = 0
    /\ split_data = InitialSplitData([ingredients |-> <<>>,
                                      instructions |-> <<>>], FALSE)
    /\ result = "pending"
    /\ tasks = <<>>
    /\ pages = <<>>
    /\ cache = <<>>
    /\ clear_response = <<>>
    /\ tokens = <<>>
    /\ server = <<>>

\* lines 110-130 and 200-203: column height, overflow flag, initial split_data
MeasureColumn ==
    /\ pc = "measure_column"
    /\ LET ingredients_height == page.ingredients_height
           ingredients_overflow == ingredients_height > AVAILABLE_HEIGHT
       IN  /\ split_data' = InitialSplitData(recipe, ingredients_overflow)
           /\ IF ingredients_overflow
              THEN /\ pc' = "measure_header"
                   /\ UNCHANGED remaining_right_column_height
              ELSE /\ pc' = "measure_instructions"
                   /\ remaining_right_column_height' = AVAILABLE_HEIGHT
    /\ UNCHANGED <<page, recipe, header_height, result>>
    /\ UNCHANGED <<renderVars, serverVars>>

\* lines 134-140: title + servings height
MeasureHeader ==
    /\ pc = "measure_header"
    /\ header_height' = page.header_height
    /\ pc' = "measure_ingredients"
    /\ UNCHANGED <<page, recipe, remaining_right_column_height, split_data,
                   result>>
    /\ UNCHANGED <<renderVars, serverVars>>

\* lines 143-198: block heights, split point, overflow height, remaining space
MeasureIngredients ==
    /\ pc = "measure_ingredients"
    /\ LET ingredient_heights == page.ingredient_heights
           ingredient_split == IngredientSplit(ingredient_heights,
                                               header_height)
           overflow_height == OverflowHeight(ingredient_heights,
                                             ingredient_split)
       IN  /\ split_data' =
                 [split_data EXCEPT
                    !.left_column_ingredients =
                        LeftColumnIngredients(ingredient_split),
                    !.right_column_ingredients =
                        RightColumnIngredients(ingredient_split, recipe)]
           /\ remaining_right_column_height' =
                 RemainingAfterOverflow(overflow_height)
    /\ pc' = "measure_instructions"
    /\ UNCHANGED <<page, recipe, header_height, result>>
    /\ UNCHANGED <<renderVars, serverVars>>

\* lines 206-233: instruction heights, split, fallback, return split_data
MeasureInstructions ==
    /\ pc = "measure_instructions"
    /\ LET instruction_heights == page.instruction_heights
           instruction_split == InstructionSplit(instruction_heights,
                                    remaining_right_column_height, recipe)
       IN  split_data' =
               [split_data EXCEPT
                  !.first_page_instructions =
                      FirstPageInstructions(instruction_split),
                  !.overflow_instructions =
                      OverflowInstructions(instruction_split, recipe)]
    /\ pc' = "done"
    /\ result' = "returned"
    /\ UNCHANGED <<page, recipe, header_height, remaining_right_column_height>>
    /\ UNCHANGED <<renderVars, serverVars>>

Next ==
    \/ MeasureColumn
    \/ MeasureHeader
    \/ MeasureIngredients
    \/ MeasureInstructions

Spec == Init /\ [][Next]_vars

(***************************************************************************)
(* Vocabulary of the properties.                                           *)
(***************************************************************************)
Returned == pc = "done" /\ result = "returned"

\* the page shows exactly the recipe's ingredients and instructions
Matched ==
    /\ ItemCount(page.ingredient_heights) = Len(recipe.ingredients)
    /\ Len(page.instruction_heights) = Len(recipe.instructions)

\* the measured column is at least as tall as its header and blocks
ColumnCoversBlocks ==
    page.ingredients_height
        >= page.header_height + SumHeights(page.ingredient_heights)

\* s followed by t lists every index 0..n-1 exactly once and nothing else
CoversOnce(s, t, n) ==
    LET c == s \o t
    IN  /\ Len(c) = n
        /\ \A k \in 0..(n - 1) :
               Cardinality({i \in 1..Len(c) : c[i] = k}) = 1

StrictlyIncreasing(s) == \A i \in 1..(Len(s) - 1) : s[i] < s[i + 1]

AllBefore(s, t) == \A i \in 1..Len(s) : \A j \in 1..Len(t) : s[i] < t[j]

\* C1: on matched input the two ingredient lists together hold every
\* ingredient index exactly once, and the two instruction lists together
\* hold every instruction index exactly once.
C1_IndexPartition ==
    (Returned /\ Matched) =>
        /\ CoversOnce(split_data.left_column_ingredients,
                      split_data.right_column_ingredients,
                      Len(recipe.ingredients))
        /\ CoversOnce(split_data.first_page_instructions,
                      split_data.overflow_instructions,
                      Len(recipe.instructions))

C1_Witness ==
    /\ Returned /\ Matched
    /\ split_data.left_column_ingredients # <<>>
    /\ split_data.right_column_ingredients # <<>>
    /\ split_data.first_page_instructions # <<>>
    /\ split_data.overflow_instructions # <<>>

\* C2: each of the four index lists is strictly increasing, every left
\* index is below every right index and every first-page index is below
\* every overflow index.
C2_OrderPreserved ==
    Returned =>
        /\ StrictlyIncreasing(split_data.left_column_ingredients)
        /\ StrictlyIncreasing(split_data.right_column_ingredients)
        /\ StrictlyIncreasing(split_data.first_page_instructions)
        /\ StrictlyIncreasing(split_data.overflow_instructions)
        /\ AllBefore(split_data.left_column_ingredients,
                     split_data.right_column_ingredients)
        /\ AllBefore(split_data.first_page_instructions,
                     split_data.overflow_instructions)

C2_Witness ==
    /\ Returned
    /\ Len(split_data.left_column_ingredients) >= 1
    /\ Len(split_data.right_column_ingredients) >= 1
    /\ split_data.first_page_instructions = <<0>>
    /\ split_data.overflow_instructions = <<1>>

\* C3: if header height plus all ingredient block heights is at most
\* AVAILABLE_HEIGHT then ingredients_overflow is false and the right
\* column is empty.
C3_FitsImpliesNoOverflow ==
    (Returned /\ page.header_height + SumHeights(page.ingredient_heights)
                    <= AVAILABLE_HEIGHT) =>
        /\ ~split_data.ingredients_overflow
        /\ split_data.right_column_ingredients = <<>>

\* C4: a recipe with at least one instruction never gets an empty first
\* page, whatever the measured heights and the remaining height.
C4_FirstPageNonEmpty ==
    (Returned /\ Len(recipe.instructions) >= 1) =>
        split_data.first_page_instructions # <<>>

C4_Witness ==
    /\ Returned
    /\ Len(recipe.instructions) >= 1
    /\ remaining_right_column_height < 0
    /\ split_data.first_page_instructions # <<>>

\* zero instructions fit: title allowance plus the first measured
\* instruction already exceeds the remaining right-column height
ZeroInstructionsFit ==
    /\ page.instruction_heights # <<>>
    /\ INSTRUCTIONS_TITLE_HEIGHT + page.instruction_heights[1]
           > remaining_right_column_height

\* C5: if zero instructions fit, all instructions are on the first page and
\* the overflow list is empty.
C5_ZeroFitForcesAll ==
    (Returned /\ ZeroInstructionsFit) =>
        /\ split_data.first_page_instructions
               = Range(0, Len(recipe.instructions))
        /\ split_data.overflow_instructions = <<>>

\* one instruction of height 9999 against a budget of 100
C5_Witness ==
    /\ Returned
    /\ page.instruction_heights = <<9999>>
    /\ Len(recipe.instructions) = 1
    /\ remaining_right_column_height = 100
    /\ split_data.first_page_instructions = <<0>>
    /\ split_data.overflow_instructions = <<>>

\* C6 as stated: with a negative remaining height and two or more
\* instructions, index 0 is on the first page and the instructions that do
\* not fit are in the overflow list.
C6_NegativeBudgetOverflows ==
    (Returned /\ Matched /\ remaining_right_column_height < 0
              /\ Len(recipe.instructions) >= 2) =>
        /\ split_data.first_page_instructions # <<>>
        /\ split_data.first_page_instructions[1] = 0
        /\ split_data.overflow_instructions # <<>>

\* C6 amended: with a negative remaining height and two or more
\* instructions, every instruction is forced onto the first page and the
\* overflow list is empty.
C6_NegativeBudgetForcesAll ==
    (Returned /\ remaining_right_column_height < 0
              /\ Len(recipe.instructions) >= 2) =>
        /\ split_data.first_page_instructions
               = Range(0, Len(recipe.instructions))
        /\ split_data.overflow_instructions = <<>>

C6_Witness ==
    /\ Returned /\ Matched
    /\ remaining_right_column_height < 0
    /\ Len(recipe.instructions) = 2
    /\ split_data.first_page_instructions = <<0, 1>>
    /\ split_data.overflow_instructions = <<>>

\* the recipe has one ingredient, the page shows it, and its block alone is
\* taller than AVAILABLE_HEIGHT
SingleOversizedIngredient ==
    /\ Len(recipe.ingredients) = 1
    /\ ItemCount(page.ingredient_heights) = 1
    /\ \E i \in 1..Len(page.ingredient_heights) :
           /\ ~page.ingredient_heights[i].isSubheader
           /\ page.ingredient_heights[i].height > AVAILABLE_HEIGHT

\* C7 as stated: a single ingredient taller than AVAILABLE_HEIGHT is still
\* assigned to the left column.
C7_OversizedStaysLeft ==
    (Returned /\ SingleOversizedIngredient /\ ColumnCoversBlocks) =>
        /\ split_data.left_column_ingredients = <<0>>
        /\ split_data.right_column_ingredients = <<>>

\* C7 amended: when the measured column is at least as tall as its header
\* and blocks, a single ingredient taller than AVAILABLE_HEIGHT is assigned
\* to the right column and the left column is empty.
C7_OversizedGoesRight ==
    (Returned /\ SingleOversizedIngredient /\ ColumnCoversBlocks) =>
        /\ split_data.ingredients_overflow
        /\ split_data.left_column_ingredients = <<>>
        /\ split_data.right_column_ingredients = <<0>>

C7_Witness ==
    /\ Returned /\ SingleOversizedIngredient /\ ColumnCoversBlocks
    /\ page.ingredient_heights = <<[height |-> 1000, isSubheader |-> FALSE]>>
    /\ split_data.right_column_ingredients = <<0>>

\* height of the blocks the plan leaves in the left column: every block
\* that lines 181-192 do not count as overflow
LeftColumnBlocksHeight ==
    IF split_data.ingredients_overflow
    THEN SumHeights(page.ingredient_heights)
             - OverflowHeight(page.ingredient_heights,
                              Len(split_data.left_column_ingredients))
    ELSE SumHeights(page.ingredient_heights)

\* C8: when the measured column is at least as tall as its header and
\* blocks, header height plus the heights of the blocks assigned to the
\* left column does not exceed AVAILABLE_HEIGHT.
C8_LeftColumnFits ==
    (Returned /\ ColumnCoversBlocks) =>
        page.header_height + LeftColumnBlocksHeight <= AVAILABLE_HEIGHT

C8_Witness ==
    /\ Returned /\ ColumnCoversBlocks
    /\ split_data.ingredients_overflow
    /\ split_data.left_column_ingredients # <<>>
    /\ split_data.right_column_ingredients # <<>>
    /\ page.header_height + LeftColumnBlocksHeight = AVAILABLE_HEIGHT

\* C9: on matched input a recipe without ingredients gets two empty
\* ingredient lists, a recipe without instructions gets two empty
\* instruction lists, and the call returns a plan.
C9_EmptyListsHandled ==
    (pc = "done" /\ Matched) =>
        /\ result = "returned"
        /\ Len(recipe.ingredients) = 0 =>
               /\ split_data.left_column_ingredients = <<>>
               /\ split_data.right_column_ingredients = <<>>
        /\ Len(recipe.instructions) = 0 =>
               /\ split_data.first_page_instructions = <<>>
               /\ split_data.overflow_instructions = <<>>

C9_Witness ==
    /\ Returned /\ Matched
    /\ split_data.ingredients_overflow
    /\ Len(recipe.ingredients) = 0
    /\ Len(recipe.instructions) = 0
    /\ split_data.left_column_ingredients = <<>>
    /\ split_data.first_page_instructions = <<>>

\* C10: when the number of measured ingredient or instruction blocks
\* differs from the recipe's lists, no plan is returned.
C10_MismatchRejected ==
    ~Matched => result # "returned"

\* the plan returned on mismatched input names an index outside the recipe
C10_OutOfRangeReturned ==
    /\ Returned /\ ~Matched
    /\ \E i \in 1..Len(split_data.first_page_instructions) :
           split_data.first_page_instructions[i] >= Len(recipe.instructions)

(***************************************************************************)
(* Render requests.                                                        *)
(*                                                                         *)
(* A request is download_recipe_pdf(video_id, regenerate), which awaits    *)
(* generate_or_load_pdf, which awaits generate_recipe_pdf, which awaits    *)
(* measure_content_and_split.  Optional values (None, a missing file) are  *)
(* sequences of length 0 or 1.                                             *)
(***************************************************************************)
TaskIds == {"t1", "t2"}
Videos == {"v1", "v2"}

\* recipe.json contents the cache can hold
LongRecipe ==
    [ingredients  |-> <<"ingredient", "ingredient">>,
     instructions |-> <<"instruction", "instruction">>]

ShortRecipe ==
    [ingredients  |-> <<"ingredient">>,
     instructions |-> <<"instruction">>]

\* template.render(recipe=..., split_data=...): the markup of one request
Template(t, r, sd) == [owner |-> t, recipe |-> r, split_data |-> sd]

\* what the page.evaluate scripts report for a markup set on a page
Surface(html) ==
    IF html = <<>>
    THEN [ingredients_height |-> 0, header_height |-> 0,
          ingredient_heights |-> <<>>, instruction_heights |-> <<>>]
    ELSE IF html[1].recipe = LongRecipe
    THEN [ingredients_height  |-> 1548,
          header_height       |-> 60,
          ingredient_heights  |-> <<[height |-> 714, isSubheader |-> FALSE],
                                    [height |-> 714, isSubheader |-> FALSE]>>,
          instruction_heights |-> <<20, 100>>]
    ELSE [ingredients_height  |-> 240,
          header_height       |-> 60,
          ingredient_heights  |-> <<[height |-> 160, isSubheader |-> FALSE]>>,
          instruction_heights |-> <<100>>]

\* page.pdf(): the bytes rasterized from the markup on the page
Rasterize(html) == [pdf_of |-> html]

\* a recipe.pdf left in the cache by an earlier process
OldPdf(v) == [pdf_of |-> <<[owner |-> "earlier", video |-> v]>>]

\* Python truthiness of an Optional[bytes] / Optional[dict]
Truthy(opt) == opt # <<>>

\* main.py lines 1088-1113: the HTTP status of download_recipe_pdf
DownloadStatusAll500(exc) ==
    IF exc = "none" THEN 200 ELSE 500

DownloadStatus(exc) ==
    IF exc = "none" THEN 200
    ELSE IF exc = "ValueError" THEN 404
    ELSE 500

NewTask(v, force) ==
    [pc |-> "start", video_id |-> v, force_regenerate |-> force,
     recipe |-> <<>>, page |-> 0,
     header_height |-> 0, remaining_right_column_height |-> 0,
     split_data |-> <<>>, pdf_bytes |-> <<>>,
     response |-> <<>>, exc |-> "none", status |-> 0,
     saved |-> FALSE, hung |-> FALSE, log |-> <<>>, measured_from |-> {},
     read_at |-> 0]

InitRender ==
    /\ pc = "done"
    /\ page = [ingredients_height |-> 934, header_height |-> 60,
               ingredient_heights |-> <<>>, instruction_heights |-> <<>>]
    /\ recipe = [ingredients |-> <<>>, instructions |-> <<>>]
    /\ header_height = 0
    /\ remaining_right_column_height = 0
    /\ split_data = InitialSplitData([ingredients |-> <<>>,
                                      instructions |-> <<>>], FALSE)
    /\ result = "pending"
    /\ tasks \in [TaskIds -> {NewTask(v, f) : v \in Videos, f \in BOOLEAN}]
    /\ pages = <<>>
    /\ cache \in [recipe : {[v \in Videos |-> IF v = "v1" THEN a ELSE b] :
                               a \in {<<>>, <<LongRecipe>>},
                               b \in {<<>>, <<ShortRecipe>>}},
                  pdf    : [Videos -> {<<>>}]
                               \cup {[v \in Videos |-> <<OldPdf(v)>>]}
                               \cup {[v \in Videos |->
                                        IF v = "v1" THEN <<OldPdf(v)>>
                                        ELSE <<>>]}]
    /\ clear_response = <<>>
    /\ tokens = <<>>
    /\ server = <<>>

\* pdf_service.py lines 335-342
load_cached_pdfNeverFound(v) == <<>>

load_cached_pdf(v) == cache.pdf[v]

Running(t) == ~tasks[t].hung

\* number of requests that have loaded recipe.json so far (line 253); a
\* request's read_at is its place in the order of those loads
ReadsSoFar == Cardinality({u \in TaskIds : tasks[u].read_at > 0})

\* main.py 1088, pdf_service.py 365-371 and 250-275: everything up to the
\* first await (entering async_playwright)
BeginRequest(t) ==
    /\ tasks[t].pc = "start"
    /\ LET v == tasks[t].video_id
           cached_pdf == IF tasks[t].force_regenerate THEN <<>>
                         ELSE load_cached_pdf(v)
           r == cache.recipe[v]
       IN  IF ~tasks[t].force_regenerate /\ Truthy(cached_pdf)
           THEN tasks' = [tasks EXCEPT ![t].pc = "done",
                                       ![t].response = cached_pdf,
                                       ![t].status = DownloadStatus("none")]
           ELSE IF ~Truthy(r)
           THEN tasks' = [tasks EXCEPT ![t].pc = "done",
                                       ![t].exc = "ValueError",
                                       ![t].status = DownloadStatus("ValueError")]
           ELSE tasks' = [tasks EXCEPT ![t].pc = "launch",
                                       ![t].recipe = r,
                                       ![t].read_at = ReadsSoFar + 1,
                                       ![t].log = Append(@, "render_initial")]
    /\ UNCHANGED <<pages, cache>>
    /\ UNCHANGED <<engineVars, clear_response, serverVars>>

\* lines 279-281: async_playwright().__aenter__ and p.chromium.launch()
LaunchBrowser(t) ==
    /\ tasks[t].pc = "launch" /\ Running(t)
    /\ tasks' = [tasks EXCEPT ![t].pc = "new_page",
                              ![t].log = Append(@, "launch")]
    /\ UNCHANGED <<pages, cache>>
    /\ UNCHANGED <<engineVars, clear_response, serverVars>>

\* line 282: browser.new_page() returns a page of this request's own browser
NewPageShared(t) ==
    /\ tasks[t].pc = "new_page" /\ Running(t)
    /\ pages' = IF pages = <<>>
                THEN <<[html |-> <<>>, fonts_ready |-> FALSE]>>
                ELSE pages
    /\ tasks' = [tasks EXCEPT ![t].pc = "set_content_initial",
                              ![t].page = 1]
    /\ UNCHANGED cache
    /\ UNCHANGED <<engineVars, clear_response, serverVars>>

NewPage(t) ==
    /\ tasks[t].pc = "new_page" /\ Running(t)
    /\ pages' = Append(pages, [html |-> <<>>, fonts_ready |-> FALSE])
    /\ tasks' = [tasks EXCEPT ![t].pc = "set_content_initial",
                              ![t].page = Len(pages) + 1]
    /\ UNCHANGED cache
    /\ UNCHANGED <<engineVars, clear_response, serverVars>>

\* line 286: page.set_content(initial_html)
SetContentInitial(t) ==
    /\ tasks[t].pc = "set_content_initial" /\ Running(t)
    /\ pages' = [pages EXCEPT ![tasks[t].page] =
                    [html |-> <<Template(t, tasks[t].recipe[1], <<>>)>>,
                     fonts_ready |-> FALSE]]
    /\ tasks' = [tasks EXCEPT ![t].pc = "fonts_initial",
                              ![t].log = Append(@, "set_content")]
    /\ UNCHANGED cache
    /\ UNCHANGED <<engineVars, clear_response, serverVars>>

\* line 288: page.evaluate("() => document.fonts.ready")
FontsReadyInitialSkipped(t) ==
    /\ tasks[t].pc = "fonts_initial" /\ Running(t)
    /\ tasks' = [tasks EXCEPT ![t].pc = "measure_column"]
    /\ UNCHANGED <<pages, cache>>
    /\ UNCHANGED <<engineVars, clear_response, serverVars>>

FontsReadyInitial(t) ==
    /\ tasks[t].pc = "fonts_initial" /\ Running(t)
    /\ pages' = [pages EXCEPT ![tasks[t].page].fonts_ready = TRUE]
    /\ tasks' = [tasks EXCEPT ![t].pc = "measure_column",
                              ![t].log = Append(@, "fonts_ready")]
    /\ UNCHANGED cache
    /\ UNCHANGED <<engineVars, clear_response, serverVars>>

\* the markup currently on the page of request t, and its author
PageHtml(t) == pages[tasks[t].page].html

HtmlOwner(html) == IF html = <<>> THEN "nobody" ELSE html[1].owner

\* line 291 -> lines 110-130, 200-203
TaskMeasureColumn(t) ==
    /\ tasks[t].pc = "measure_column" /\ Running(t)
    /\ LET ingredients_height == Surface(PageHtml(t)).ingredients_height
           ingredients_overflow == ingredients_height > AVAILABLE_HEIGHT
       IN  tasks' = [tasks EXCEPT
               ![t].split_data =
                   <<InitialSplitData(tasks[t].recipe[1], ingredients_overflow)>>,
               ![t].pc = IF ingredients_overflow THEN "measure_header"
                         ELSE "measure_instructions",
               ![t].remaining_right_column_height =
                   IF ingredients_overflow THEN @ ELSE AVAILABLE_HEIGHT,
               ![t].measured_from = @ \cup {HtmlOwner(PageHtml(t))},
               ![t].log = Append(@, "measure")]
    /\ UNCHANGED <<pages, cache>>
    /\ UNCHANGED <<engineVars, clear_response, serverVars>>

\* lines 134-140
TaskMeasureHeader(t) ==
    /\ tasks[t].pc = "measure_header" /\ Running(t)
    /\ tasks' = [tasks EXCEPT
           ![t].header_height = Surface(PageHtml(t)).header_height,
           ![t].pc = "measure_ingredients",
           ![t].measured_from = @ \cup {HtmlOwner(PageHtml(t))},
           ![t].log = Append(@, "measure")]
    /\ UNCHANGED <<pages, cache>>
    /\ UNCHANGED <<engineVars, clear_response, serverVars>>

\* lines 143-198
TaskMeasureIngredients(t) ==
    /\ tasks[t].pc = "measure_ingredients" /\ Running(t)
    /\ LET ingredient_heights == Surface(PageHtml(t)).ingredient_heights
           ingredient_split == IngredientSplit(ingredient_heights,
                                               tasks[t].header_height)
           overflow_height == OverflowHeight(ingredient_heights,
                                             ingredient_split)
       IN  tasks' = [tasks EXCEPT
               ![t].split_data =
                   <<[@[1] EXCEPT
                        !.left_column_ingredients =
                            LeftColumnIngredients(ingredient_split),
                        !.right_column_ingredients =
                            RightColumnIngredients(ingredient_split,
                                                   tasks[t].recipe[1])]>>,
               ![t].remaining_right_column_height =
                   RemainingAfterOverflow(overflow_height),
               ![t].pc = "measure_instructions",
               ![t].measured_from = @ \cup {HtmlOwner(PageHtml(t))},
               ![t].log = Append(@, "measure")]
    /\ UNCHANGED <<pages, cache>>
    /\ UNCHANGED <<engineVars, clear_response, serverVars>>

\* lines 206-233, then lines 293-301: the plan is returned and the final
\* markup is rendered from the same recipe and that plan
TaskMeasureInstructionsTrimsRecipe(t) ==
    /\ tasks[t].pc = "measure_instructions" /\ Running(t)
    /\ LET instruction_heights == Surface(PageHtml(t)).instruction_heights
           instruction_split ==
               InstructionSplit(instruction_heights,
                                tasks[t].remaining_right_column_height,
                                tasks[t].recipe[1])
       IN  tasks' = [tasks EXCEPT
               ![t].split_data =
                   <<[@[1] EXCEPT
                        !.first_page_instructions =
                            FirstPageInstructions(instruction_split),
                        !.overflow_instructions =
                            OverflowInstructions(instruction_split,
                                                 tasks[t].recipe[1])]>>,
               ![t].recipe =
                   <<[@[1] EXCEPT
                        !.instructions = SubSeq(@, 1, instruction_split)]>>,
               ![t].pc = "set_content_final",
               ![t].measured_from = @ \cup {HtmlOwner(PageHtml(t))},
               ![t].log = Append(Append(@, "measure"), "render_final")]
    /\ UNCHANGED <<pages, cache>>
    /\ UNCHANGED <<engineVars, clear_response, serverVars>>

TaskMeasureInstructions(t) ==
    /\ tasks[t].pc = "measure_instructions" /\ Running(t)
    /\ LET instruction_heights == Surface(PageHtml(t)).instruction_heights
           instruction_split ==
               InstructionSplit(instruction_heights,
                                tasks[t].remaining_right_column_height,
                                tasks[t].recipe[1])
       IN  tasks' = [tasks EXCEPT
               ![t].split_data =
                   <<[@[1] EXCEPT
                        !.first_page_instructions =
                            FirstPageInstructions(instruction_split),
                        !.overflow_instructions =
                            OverflowInstructions(instruction_split,
                                                 tasks[t].recipe[1])]>>,
               ![t].pc = "set_content_final",
               ![t].measured_from = @ \cup {HtmlOwner(PageHtml(t))},
               ![t].log = Append(Append(@, "measure"), "render_final")]
    /\ UNCHANGED <<pages, cache>>
    /\ UNCHANGED <<engineVars, clear_response, serverVars>>

\* line 303: page.set_content(final_html)
SetContentFinalNoSplit(t) ==
    /\ tasks[t].pc = "set_content_final" /\ Running(t)
    /\ pages' = [pages EXCEPT ![tasks[t].page] =
                    [html |-> <<Template(t, tasks[t].recipe[1], <<>>)>>,
                     fonts_ready |-> FALSE]]
    /\ tasks' = [tasks EXCEPT ![t].pc = "fonts_final",
                              ![t].log = Append(@, "set_content")]
    /\ UNCHANGED cache
    /\ UNCHANGED <<engineVars, clear_response, serverVars>>

SetContentFinal(t) ==
    /\ tasks[t].pc = "set_content_final" /\ Running(t)
    /\ pages' = [pages EXCEPT ![tasks[t].page] =
                    [html |-> <<Template(t, tasks[t].recipe[1],
                                         tasks[t].split_data)>>,
                     fonts_ready |-> FALSE]]
    /\ tasks' = [tasks EXCEPT ![t].pc = "fonts_final",
                              ![t].log = Append(@, "set_content")]
    /\ UNCHANGED cache
    /\ UNCHANGED <<engineVars, clear_response, serverVars>>

\* line 305: page.evaluate("() => document.fonts.ready")
FontsReadyFinal(t) ==
    /\ tasks[t].pc = "fonts_final" /\ Running(t)
    /\ pages' = [pages EXCEPT ![tasks[t].page].fonts_ready = TRUE]
    /\ tasks' = [tasks EXCEPT ![t].pc = "pdf",
                              ![t].log = Append(@, "fonts_ready")]
    /\ UNCHANGED cache
    /\ UNCHANGED <<engineVars, clear_response, serverVars>>

\* pdf_service.py lines 345-349
save_pdf_to_cache(v, pdf_bytes) == [cache EXCEPT !.pdf[v] = <<pdf_bytes>>]

\* lines 309-318: page.pdf(...)
PrintPdfSavesEarly(t) ==
    /\ tasks[t].pc = "pdf" /\ Running(t)
    /\ tasks' = [tasks EXCEPT ![t].pc = "close",
                              ![t].pdf_bytes = <<Rasterize(PageHtml(t))>>,
                              ![t].saved = TRUE,
                              ![t].log = Append(@, "pdf")]
    /\ cache' = save_pdf_to_cache(tasks[t].video_id, Rasterize(PageHtml(t)))
    /\ UNCHANGED pages
    /\ UNCHANGED <<engineVars, clear_response, serverVars>>

PrintPdf(t) ==
    /\ tasks[t].pc = "pdf" /\ Running(t)
    /\ tasks' = [tasks EXCEPT ![t].pc = "close",
                              ![t].pdf_bytes = <<Rasterize(PageHtml(t))>>,
                              ![t].log = Append(@, "pdf")]
    /\ UNCHANGED <<pages, cache>>
    /\ UNCHANGED <<engineVars, clear_response, serverVars>>

\* line 320: browser.close()
CloseBrowser(t) ==
    /\ tasks[t].pc = "close" /\ Running(t)
    /\ tasks' = [tasks EXCEPT ![t].pc = "exit"]
    /\ UNCHANGED <<pages, cache>>
    /\ UNCHANGED <<engineVars, clear_response, serverVars>>

\* line 322 (return through async_playwright().__aexit__), lines 373-376
\* (save to cache, return) and main.py 1090-1108 (the 200 response)
ReturnAndSave(t) ==
    /\ tasks[t].pc = "exit" /\ Running(t)
    /\ cache' = save_pdf_to_cache(tasks[t].video_id, tasks[t].pdf_bytes[1])
    /\ tasks' = [tasks EXCEPT ![t].pc = "done",
                              ![t].saved = TRUE,
                              ![t].response = tasks[t].pdf_bytes,
                              ![t].status = DownloadStatus("none")]
    /\ UNCHANGED pages
    /\ UNCHANGED <<engineVars, clear_response, serverVars>>

\* the awaits inside the try block of generate_recipe_pdf (lines 278-322)
TryPcs ==
    {"launch", "new_page", "set_content_initial", "fonts_initial",
     "measure_column", "measure_header", "measure_ingredients",
     "measure_instructions", "set_content_final", "fonts_final", "pdf",
     "close", "exit"}

\* the page.evaluate / page.pdf awaits: calls into the measurement surface
SurfacePcs ==
    {"fonts_initial", "measure_column", "measure_header",
     "measure_ingredients", "measure_instructions", "fonts_final", "pdf"}

\* lines 324-326 and main.py 1112-1113: an awaited call raises, the except
\* clause re-raises Exception, the endpoint answers 500
StepFails(t) ==
    /\ tasks[t].pc \in TryPcs /\ Running(t)
    /\ tasks' = [tasks EXCEPT ![t].pc = "done",
                              ![t].exc = "Exception",
                              ![t].status = DownloadStatus("Exception")]
    /\ UNCHANGED <<pages, cache>>
    /\ UNCHANGED <<engineVars, clear_response, serverVars>>

\* lines 288-318: page.evaluate and page.pdf are awaited without a timeout;
\* a call the browser never answers leaves the coroutine suspended
SurfaceHangs(t) ==
    /\ tasks[t].pc \in SurfacePcs /\ Running(t)
    /\ tasks' = [tasks EXCEPT ![t].hung = TRUE]
    /\ UNCHANGED <<pages, cache>>
    /\ UNCHANGED <<engineVars, clear_response, serverVars>>

TaskNext(t) ==
    \/ BeginRequest(t)
    \/ LaunchBrowser(t)
    \/ NewPage(t)
    \/ SetContentInitial(t)
    \/ FontsReadyInitial(t)
    \/ TaskMeasureColumn(t)
    \/ TaskMeasureHeader(t)
    \/ TaskMeasureIngredients(t)
    \/ TaskMeasureInstructions(t)
    \/ SetContentFinal(t)
    \/ FontsReadyFinal(t)
    \/ PrintPdf(t)
    \/ CloseBrowser(t)
    \/ ReturnAndSave(t)
    \/ StepFails(t)
    \/ SurfaceHangs(t)

NextRender == \E t \in TaskIds : TaskNext(t)

SpecRender == InitRender /\ [][NextRender]_vars

\* the event loop resumes every coroutine whose awaited call has completed
SpecRenderFair ==
    InitRender /\ [][NextRender]_vars /\ \A t \in TaskIds : WF_vars(TaskNext(t))

(***************************************************************************)
(* Render requests for one video while the cache is cleared and the        *)
(* recipe is extracted again.                                              *)
(***************************************************************************)
\* the step files of cache_manager: save_step, load_step and clear_step
\* all address video_dir / f"{step_name}.json"
StepFile(step_name) ==
    IF step_name = "recipe" THEN "recipe.json" ELSE "pdf.json"

\* the steps of valid_steps (main.py line 1062) whose clearing concerns the
\* files of this model
ClearableSteps == {"recipe", "pdf"}

\* cache_manager.py lines 96-110: unlink video_dir / f"{step_name}.json" if
\* it exists; recipe.json is cache.recipe, recipe.pdf is cache.pdf, and no
\* code writes a pdf.json
clear_step(v, step_name) ==
    [cache EXCEPT
       !.recipe[v] = IF StepFile(step_name) = "recipe.json" THEN <<>> ELSE @,
       !.pdf[v]    = IF StepFile(step_name) = "recipe.pdf" THEN <<>> ELSE @]

\* main.py lines 1057-1071: DELETE /api/cache/{video_id}/{step_name}
ClearCacheStep(v, step_name) ==
    /\ step_name \in ClearableSteps
    /\ cache' = clear_step(v, step_name)
    /\ clear_response' = <<[message |-> "Cleared", step_name |-> step_name,
                            video_id |-> v]>>
    /\ UNCHANGED <<tasks, pages>>
    /\ UNCHANGED <<engineVars, serverVars>>

\* services.py lines 124-128, 290 and 296: extract_recipe_gemini returns the
\* cached recipe if there is one; otherwise it stores what the language
\* model answers as the new recipe.json of the video
RecipeUpdated(v, r) ==
    /\ cache.recipe[v] = <<>>
    /\ cache' = [cache EXCEPT !.recipe[v] = <<r>>]
    /\ UNCHANGED <<tasks, pages, clear_response>>
    /\ UNCHANGED <<engineVars, serverVars>>

\* two requests for the same video, whose recipe.json is in the cache
InitCache ==
    /\ pc = "done"
    /\ page = [ingredients_height |-> 934, header_height |-> 60,
               ingredient_heights |-> <<>>, instruction_heights |-> <<>>]
    /\ recipe = [ingredients |-> <<>>, instructions |-> <<>>]
    /\ header_height = 0
    /\ remaining_right_column_height = 0
    /\ split_data = InitialSplitData([ingredients |-> <<>>,
                                      instructions |-> <<>>], FALSE)
    /\ result = "pending"
    /\ tasks \in [TaskIds -> {NewTask("v1", f) : f \in BOOLEAN}]
    /\ pages = <<>>
    /\ cache \in [recipe : {[v \in Videos |-> IF v = "v1" THEN <<LongRecipe>>
                                               ELSE <<>>]},
                  pdf    : {[v \in Videos |-> IF v = "v1" THEN a ELSE <<>>] :
                               a \in {<<>>, <<OldPdf("v1")>>}}]
    /\ clear_response = <<>>
    /\ tokens = <<>>
    /\ server = <<>>

\* the videos that have a request
VideosInUse == {tasks[t].video_id : t \in TaskIds}

NextCache ==
    \/ \E t \in TaskIds : TaskNext(t)
    \/ \E v \in VideosInUse, step_name \in ClearableSteps :
           ClearCacheStep(v, step_name)
    \/ \E v \in VideosInUse, r \in {LongRecipe, ShortRecipe} :
           RecipeUpdated(v, r)

SpecCache == InitCache /\ [][NextCache]_vars

(***************************************************************************)
(* Properties of the render requests.                                      *)
(***************************************************************************)
Contains(log, e) == \E i \in 1..Len(log) : log[i] = e

CountBefore(log, i, e) == Cardinality({j \in 1..(i - 1) : log[j] = e})

\* before event i a fonts-ready wait completed, and it came after the last
\* set_content that precedes event i
FontsSettledBefore(log, i) ==
    \E j \in 1..(i - 1) :
        /\ log[j] = "fonts_ready"
        /\ \E k \in 1..(j - 1) : log[k] = "set_content"
        /\ \A m \in (j + 1)..(i - 1) : log[m] # "set_content"

\* C13: every height measurement of a request comes after the first
\* set_content and a completed fonts-ready wait, and page.pdf comes after the
\* final set_content and a second completed fonts-ready wait.
C13_FontsReadyBeforeUse ==
    \A t \in TaskIds :
        \A i \in 1..Len(tasks[t].log) :
            /\ tasks[t].log[i] = "measure" =>
                   /\ CountBefore(tasks[t].log, i, "set_content") = 1
                   /\ FontsSettledBefore(tasks[t].log, i)
            /\ tasks[t].log[i] = "pdf" =>
                   /\ CountBefore(tasks[t].log, i, "set_content") = 2
                   /\ CountBefore(tasks[t].log, i, "fonts_ready") = 2
                   /\ FontsSettledBefore(tasks[t].log, i)

C13_Witness ==
    \E t \in TaskIds :
        /\ tasks[t].pc = "done" /\ tasks[t].status = 200
        /\ Contains(tasks[t].log, "measure")
        /\ Contains(tasks[t].log, "pdf")

\* the cache holds no recipe.pdf rasterized by request t
NothingCachedBy(t) ==
    \A v \in Videos :
        cache.pdf[v] # <<>> => HtmlOwner(cache.pdf[v][1].pdf_of) # t

C15_LoadOrRender ==
    [][\A t \in TaskIds :
          /\ BeginRequest(t) =>
                IF ~tasks[t].force_regenerate
                       /\ cache.pdf[tasks[t].video_id] # <<>>
                THEN /\ tasks'[t].pc = "done"
                     /\ tasks'[t].response = cache.pdf[tasks[t].video_id]
                     /\ tasks'[t].log = <<>>
                     /\ cache' = cache
                ELSE tasks'[t].response = <<>>
          /\ (tasks[t].pc # "done" /\ tasks'[t].pc = "done"
                 /\ tasks'[t].log # <<>> /\ tasks'[t].exc = "none") =>
                /\ Contains(tasks'[t].log, "pdf")
                /\ HtmlOwner(tasks'[t].response[1].pdf_of) = t
                /\ cache'.pdf[tasks[t].video_id] = tasks'[t].response]_vars

\* a forced request rendered and stored a PDF over the old one, and the
\* other, non-forced request on the same video then returned those bytes
C15_Witness ==
    \E t \in TaskIds, u \in TaskIds :
        /\ t # u
        /\ tasks[t].video_id = tasks[u].video_id
        /\ tasks[t].force_regenerate /\ ~tasks[u].force_regenerate
        /\ tasks[t].pc = "done" /\ tasks[t].saved
        /\ tasks[u].pc = "done" /\ tasks[u].log = <<>>
        /\ tasks[u].response = tasks[t].response
        /\ tasks[u].response # <<>>
        /\ HtmlOwner(tasks[u].response[1].pdf_of) = t

\* C16: a request that has to generate and finds no cached recipe raises
\* ValueError before any rendering step, writes nothing, and is answered
\* 404; every other generation failure is answered 500.
C16_MissingRecipe ==
    [][\A t \in TaskIds :
          /\ (BeginRequest(t)
                 /\ (tasks[t].force_regenerate
                        \/ cache.pdf[tasks[t].video_id] = <<>>)
                 /\ cache.recipe[tasks[t].video_id] = <<>>) =>
                /\ tasks'[t].exc = "ValueError"
                /\ tasks'[t].status = 404
                /\ tasks'[t].pc = "done"
                /\ tasks'[t].log = <<>>
                /\ tasks'[t].page = 0
                /\ tasks'[t].response = <<>>
                /\ cache' = cache /\ pages' = pages
          /\ (tasks[t].exc = "none" /\ tasks'[t].exc # "none"
                 /\ tasks[t].pc # "start") =>
                tasks'[t].status = 500]_vars

C16_Witness ==
    \E t \in TaskIds, u \in TaskIds :
        /\ tasks[t].exc = "ValueError" /\ tasks[t].status = 404
        /\ tasks[t].log = <<>>
        /\ tasks[u].exc = "Exception" /\ tasks[u].status = 500

\* C17: every height a request measures and every PDF it rasterizes comes
\* from markup that the same request put on the page, and no two requests
\* hold the same page.
C17_IsolatedPages ==
    \A t \in TaskIds :
        /\ tasks[t].measured_from \subseteq {t}
        /\ tasks[t].pdf_bytes # <<>> =>
               /\ HtmlOwner(tasks[t].pdf_bytes[1].pdf_of) = t
               /\ tasks[t].pdf_bytes[1].pdf_of[1].recipe = tasks[t].recipe[1]
        /\ tasks[t].page # 0 =>
               /\ HtmlOwner(PageHtml(t)) \in {"nobody", t}
               /\ \A u \in TaskIds \ {t} : tasks[u].page # tasks[t].page

\* two requests for different recipes are both inside their render passes
C17_Witness ==
    /\ tasks["t1"].video_id # tasks["t2"].video_id
    /\ tasks["t1"].pc = "measure_ingredients"
    /\ tasks["t2"].pc = "pdf"
    /\ tasks["t1"].measured_from = {"t1"}
    /\ tasks["t2"].measured_from = {"t2"}

\* C18: every render request ends, by returning or by raising.
C18_RenderEnds ==
    <>(\A t \in TaskIds : tasks[t].pc = "done")

\* a request is suspended in a measurement-surface call that never completes
C18_Stuck ==
    \E t \in TaskIds : tasks[t].hung /\ tasks[t].pc # "done"

(***************************************************************************)
(* Properties of the ingredient walk (specification Spec).                 *)
(***************************************************************************)
RECURSIVE PrefixHeight(_, _)
PrefixHeight(blocks, k) ==
    IF k = 0 THEN 0 ELSE PrefixHeight(blocks, k - 1) + blocks[k].height

\* number of leading blocks that fit under first-fit: the walk stops at the
\* first block that would push header + running total over AVAILABLE_HEIGHT
BlocksBeforeStop ==
    CHOOSE k \in 0..Len(page.ingredient_heights) :
        /\ page.header_height + PrefixHeight(page.ingredient_heights, k)
               <= AVAILABLE_HEIGHT
        /\ k < Len(page.ingredient_heights) =>
               page.header_height
                   + PrefixHeight(page.ingredient_heights, k + 1)
                   > AVAILABLE_HEIGHT

\* ingredient items among the blocks before the stop
ItemsBeforeStop ==
    Cardinality({i \in 1..BlocksBeforeStop :
                    ~page.ingredient_heights[i].isSubheader})

C20_OverflowIffRight ==
    (Returned /\ Matched /\ ColumnCoversBlocks) =>
        (split_data.ingredients_overflow
            <=> split_data.right_column_ingredients # <<>>)

(***************************************************************************)
(* Properties of the instruction budget and the instruction walk           *)
(* (specification Spec).                                                   *)
(***************************************************************************)
\* C21: no returned plan has ingredients_overflow false together with a
\* non-empty right_column_ingredients.
C21_RightOnlyOnOverflow ==
    (Returned /\ ~split_data.ingredients_overflow) =>
        split_data.right_column_ingredients = <<>>

\* a recipe with ingredients whose column did not overflow
C21_Witness ==
    /\ Returned
    /\ ~split_data.ingredients_overflow
    /\ Len(recipe.ingredients) >= 1
    /\ split_data.left_column_ingredients # <<>>
    /\ split_data.right_column_ingredients = <<>>

\* height of the blocks after the stop of the first-fit walk: the blocks
\* that the walk did not place in the left column
BlocksAfterStopHeight ==
    SumHeights(page.ingredient_heights)
        - PrefixHeight(page.ingredient_heights, BlocksBeforeStop)

\* C22: the instruction budget is AVAILABLE_HEIGHT when ingredients_overflow
\* is false; otherwise it is AVAILABLE_HEIGHT minus the heights of exactly
\* the blocks after the stop of the walk (no block the walk placed in the
\* left column), minus the continued-heading allowance and the container
\* padding.
C22_InstructionBudget ==
    (Returned /\ Matched /\ ColumnCoversBlocks) =>
        remaining_right_column_height =
            IF ~split_data.ingredients_overflow
            THEN AVAILABLE_HEIGHT
            ELSE AVAILABLE_HEIGHT - BlocksAfterStopHeight
                     - CONTINUED_TITLE_HEIGHT - CONTAINER_PADDING

\* a subheader that fits in the left column directly before the stop is
\* charged to the right column as well
C22_SubheaderChargedTwice ==
    /\ Returned /\ Matched /\ ColumnCoversBlocks
    /\ page.ingredient_heights = <<[height |-> 160, isSubheader |-> TRUE],
                                   [height |-> 1000, isSubheader |-> FALSE]>>
    /\ remaining_right_column_height
           = AVAILABLE_HEIGHT - (160 + 1000)
                 - CONTINUED_TITLE_HEIGHT - CONTAINER_PADDING

RECURSIVE SumFirst(_, _)
SumFirst(heights, k) ==
    IF k = 0 THEN 0 ELSE SumFirst(heights, k - 1) + heights[k]

\* number of leading instructions that fit under first-fit: the walk starts
\* from the title allowance and stops at the first instruction that would
\* push the running total over the remaining right-column height
InstructionsBeforeStop ==
    CHOOSE k \in 0..Len(page.instruction_heights) :
        /\ \A j \in 1..k :
               INSTRUCTIONS_TITLE_HEIGHT + SumFirst(page.instruction_heights, j)
                   <= remaining_right_column_height
        /\ k < Len(page.instruction_heights) =>
               INSTRUCTIONS_TITLE_HEIGHT
                   + SumFirst(page.instruction_heights, k + 1)
                   > remaining_right_column_height

FiveInstructions ==
    [ingredients  |-> <<>>,
     instructions |-> [i \in 1..5 |-> "instruction"]]

IsPrefix(s, t) == Len(s) <= Len(t) /\ SubSeq(t, 1, Len(s)) = s

\* the steps of one render: n is the number of page.evaluate calls of
\* measure_content_and_split (2 without ingredient overflow, 4 with)
ExpectedLog(n) ==
    <<"render_initial", "launch", "set_content", "fonts_ready">>
        \o [i \in 1..n |-> "measure"]
        \o <<"render_final", "set_content", "fonts_ready", "pdf">>

\* the plans of the two recipes, worked out by hand from the heights their
\* markup shows: 60 + 714 fits and a second 714 does not, the overflow of
\* 714 leaves 100, 80 + 20 fits and a further 100 does not
LongPlan ==
    [ingredients_overflow     |-> TRUE,
     left_column_ingredients  |-> <<0>>,
     right_column_ingredients |-> <<1>>,
     first_page_instructions  |-> <<0>>,
     overflow_instructions    |-> <<1>>]

ShortPlan ==
    [ingredients_overflow     |-> FALSE,
     left_column_ingredients  |-> <<0>>,
     right_column_ingredients |-> <<>>,
     first_page_instructions  |-> <<0>>,
     overflow_instructions    |-> <<>>]

PlanOf(r) == IF r = LongRecipe THEN LongPlan ELSE ShortPlan

\* C24: the steps of a render request happen in the order initial render,
\* measurements, one plan, final render, page.pdf, each once; the final
\* markup and the rasterized PDF carry the plan of this request's own
\* recipe and measurements; no step of a request writes to recipe.json, and
\* recipe.pdf is written only with rasterized bytes when the request
\* returns.
C24_TwoPassProtocol ==
    [][\A t \in TaskIds :
          /\ \/ IsPrefix(tasks'[t].log, ExpectedLog(2))
             \/ IsPrefix(tasks'[t].log, ExpectedLog(4))
          /\ (tasks'[t].pc = "done" /\ tasks'[t].status = 200
                 /\ tasks'[t].log # <<>>) =>
                tasks'[t].log \in {ExpectedLog(2), ExpectedLog(4)}
          /\ (tasks[t].pc = "set_content_final"
                 /\ tasks'[t].pc = "fonts_final") =>
                /\ pages[tasks[t].page].html[1].split_data = <<>>
                /\ tasks[t].measured_from = {t}
                /\ pages'[tasks[t].page].html[1].split_data
                       = <<PlanOf(tasks[t].recipe[1])>>
          /\ tasks'[t].pdf_bytes # <<>> =>
                tasks'[t].pdf_bytes[1].pdf_of[1].split_data
                    = <<PlanOf(tasks[t].recipe[1])>>
          /\ tasks'[t] # tasks[t] =>
                /\ cache'.recipe = cache.recipe
                /\ cache'.pdf # cache.pdf =>
                       /\ tasks[t].pc = "exit"
                       /\ cache'.pdf = [cache.pdf EXCEPT
                              ![tasks[t].video_id] = tasks[t].pdf_bytes]]_vars

\* a request went through both passes of the long recipe and returned the
\* PDF of its plan
C24_Witness ==
    \E t \in TaskIds :
        /\ tasks[t].pc = "done" /\ tasks[t].status = 200
        /\ tasks[t].log = ExpectedLog(4)
        /\ tasks[t].response[1].pdf_of[1].split_data = <<LongPlan>>
        /\ cache.pdf[tasks[t].video_id] = tasks[t].response

MeasurePcs ==
    {"measure_column", "measure_header", "measure_ingredients",
     "measure_instructions"}

\* C25: no step of measure_content_and_split changes the recipe of its
\* request, and the final markup is rendered from the same recipe as the
\* initial markup.
C25_RecipeUntouched ==
    [][\A t \in TaskIds :
          /\ tasks[t].pc \in MeasurePcs =>
                tasks'[t].recipe = tasks[t].recipe
          /\ (tasks[t].pc = "set_content_final"
                 /\ tasks'[t].pc = "fonts_final") =>
                /\ pages'[tasks[t].page].html[1].recipe
                       = pages[tasks[t].page].html[1].recipe
                /\ pages'[tasks[t].page].html[1].recipe
                       = tasks[t].recipe[1]]_vars

\* the final markup of the long recipe is on the page: its plan moved an
\* ingredient and an instruction out of the first column and page, and the
\* recipe still has both of each
C25_Witness ==
    \E t \in TaskIds :
        /\ tasks[t].pc = "fonts_final"
        /\ tasks[t].split_data = <<LongPlan>>
        /\ tasks[t].recipe = <<LongRecipe>>
        /\ PageHtml(t) # <<>>
        /\ PageHtml(t)[1].recipe = LongRecipe

(***************************************************************************)
(* Properties of the cache (specification SpecCache).                      *)
(***************************************************************************)
\* C27: when clear_cache_step answers "Cleared" for the pdf step of a
\* video, the video has no cached recipe PDF any more, so the next
\* load_cached_pdf finds nothing.
C27_ClearPdfRemoves ==
    [][\A v \in Videos :
          (clear_response' # clear_response
              /\ clear_response'[1].step_name = "pdf"
              /\ clear_response'[1].video_id = v) =>
              cache'.pdf[v] = <<>>]_vars

\* after the pdf step was cleared, a non-forced request returned the
\* previously cached bytes without rendering
C27_StaleServedAfterClear ==
    \E t \in TaskIds, u \in TaskIds :
        /\ t # u /\ tasks[u].pc = "start"
        /\ clear_response # <<>>
        /\ clear_response[1].step_name = "pdf"
        /\ clear_response[1].video_id = tasks[t].video_id
        /\ tasks[t].pc = "done" /\ tasks[t].log = <<>>
        /\ tasks[t].response = <<OldPdf(tasks[t].video_id)>>

\* C28: when two requests for the same video have both rendered and stored
\* a PDF from different recipe data, the cached recipe.pdf is the one
\* rendered from the data that was read last.
C28_NewestPdfWins ==
    \A t \in TaskIds, u \in TaskIds :
        (/\ tasks[t].video_id = tasks[u].video_id
         /\ tasks[t].pc = "done" /\ tasks[t].saved
         /\ tasks[u].pc = "done" /\ tasks[u].saved
         /\ tasks[t].read_at < tasks[u].read_at
         /\ tasks[t].recipe # tasks[u].recipe) =>
            /\ cache.pdf[tasks[u].video_id] # <<>>
            /\ cache.pdf[tasks[u].video_id][1].pdf_of[1].recipe
                   = tasks[u].recipe[1]

\* the request that read the older recipe stored its PDF last
C28_StaleOverwrite ==
    \E t \in TaskIds, u \in TaskIds :
        /\ tasks[t].video_id = tasks[u].video_id
        /\ tasks[t].pc = "done" /\ tasks[t].saved
        /\ tasks[u].pc = "done" /\ tasks[u].saved
        /\ tasks[t].read_at < tasks[u].read_at
        /\ tasks[t].recipe = <<LongRecipe>>
        /\ tasks[u].recipe = <<ShortRecipe>>
        /\ cache.recipe[tasks[u].video_id] = <<ShortRecipe>>
        /\ cache.pdf[tasks[u].video_id] = tasks[t].response

(***************************************************************************)
(* Public PDF links: main.create_public_pdf_url and main.serve_public_pdf  *)
(* over the in-memory dict _pdf_url_cache.                                 *)
(*                                                                         *)
(* A token is a sequence of characters; the text ".pdf" is one symbol of   *)
(* the path parameter.  Time is in seconds.                                *)
(***************************************************************************)
PUBLIC_PDF_TTL == 24 * 60 * 60

\* the clock is observed every twelve hours, up to MaxClock
ClockStep == 12 * 60 * 60
MaxClock == 3 * PUBLIC_PDF_TTL

Books == {1, 2}

BookPdfs == {"pdf_a", "pdf_b"}

\* what secrets.token_urlsafe can return: URL-safe characters, never a "."
TokenPool == {<<"a">>, <<"b">>}

\* the {token} path parameter of a request: any short text
PathTokens == UNION {[1..n -> {"a", "b", ".pdf"}] : n \in 1..2}

\* line 156: token.replace(".pdf", "") removes every occurrence of ".pdf"
RECURSIVE RemovePdfText(_)
RemovePdfText(token) ==
    IF token = <<>> THEN <<>>
    ELSE IF Head(token) = ".pdf" THEN RemovePdfText(Tail(token))
    ELSE <<Head(token)>> \o RemovePdfText(Tail(token))

InitTokens ==
    /\ pc = "done"
    /\ page = [ingredients_height |-> 934, header_height |-> 60,
               ingredient_heights |-> <<>>, instruction_heights |-> <<>>]
    /\ recipe = [ingredients |-> <<>>, instructions |-> <<>>]
    /\ header_height = 0
    /\ remaining_right_column_height = 0
    /\ split_data = InitialSplitData([ingredients |-> <<>>,
                                      instructions |-> <<>>], FALSE)
    /\ result = "pending"
    /\ tasks = <<>>
    /\ pages = <<>>
    /\ cache = <<>>
    /\ clear_response = <<>>
    /\ tokens = [store    |-> [k \in TokenPool |-> <<>>],
                 issued   |-> [k \in TokenPool |-> <<>>],
                 now      |-> 0,
                 last_op  |-> "none",
                 request  |-> <<>>,
                 response |-> <<>>]
    /\ server = <<>>

\* lines 123-146: a fresh token, and its entry with the expiry time
CreatePublicPdfUrl(book_id, pdf_bytes) ==
    /\ \E token \in {k \in TokenPool : tokens.issued[k] = <<>>} :
           LET entry == [book_id    |-> book_id,
                         pdf_bytes  |-> pdf_bytes,
                         expires_at |-> tokens.now + PUBLIC_PDF_TTL]
           IN  tokens' = [tokens EXCEPT !.store[token] = <<entry>>,
                                        !.issued[token] = <<entry>>,
                                        !.last_op = "create",
                                        !.request = <<>>,
                                        !.response = <<>>]
    /\ UNCHANGED <<engineVars, renderVars, server>>

\* lines 155-180: the answer of serve_public_pdf and the store it leaves
ServeResultExpiresEarly(store, now, book_id, path_token) ==
    LET token == RemovePdfText(path_token)
    IN  IF token \notin TokenPool \/ store[token] = <<>>
        THEN [status |-> 404, content |-> <<>>, store |-> store]
        ELSE IF now >= store[token][1].expires_at
        THEN [status |-> 404, content |-> <<>>,
              store |-> [store EXCEPT ![token] = <<>>]]
        ELSE IF store[token][1].book_id # book_id
        THEN [status |-> 404, content |-> <<>>, store |-> store]
        ELSE [status |-> 200, content |-> <<store[token][1].pdf_bytes>>,
              store |-> store]

ServeResult(store, now, book_id, path_token) ==
    LET token == RemovePdfText(path_token)
    IN  IF token \notin TokenPool \/ store[token] = <<>>
        THEN [status |-> 404, content |-> <<>>, store |-> store]
        ELSE IF now > store[token][1].expires_at
        THEN [status |-> 404, content |-> <<>>,
              store |-> [store EXCEPT ![token] = <<>>]]
        ELSE IF store[token][1].book_id # book_id
        THEN [status |-> 404, content |-> <<>>, store |-> store]
        ELSE [status |-> 200, content |-> <<store[token][1].pdf_bytes>>,
              store |-> store]

\* lines 149-180: GET /public/pdfs/{book_id}/{token}
ServePublicPdf(book_id, path_token) ==
    /\ LET res == ServeResult(tokens.store, tokens.now, book_id, path_token)
       IN  tokens' = [tokens EXCEPT
               !.store = res.store,
               !.last_op = "serve",
               !.request = <<[book_id |-> book_id, token |-> path_token]>>,
               !.response = <<[status |-> res.status,
                               content |-> res.content]>>]
    /\ UNCHANGED <<engineVars, renderVars, server>>

\* time.time() moves on between two calls
ClockAdvances ==
    /\ tokens.now + ClockStep <= MaxClock
    /\ tokens' = [tokens EXCEPT !.now = @ + ClockStep,
                                !.last_op = "clock",
                                !.request = <<>>,
                                !.response = <<>>]
    /\ UNCHANGED <<engineVars, renderVars, server>>

NextTokens ==
    \/ \E book_id \in Books, pdf_bytes \in BookPdfs :
           CreatePublicPdfUrl(book_id, pdf_bytes)
    \/ \E book_id \in Books, path_token \in PathTokens :
           ServePublicPdf(book_id, path_token)
    \/ ClockAdvances

SpecTokens == InitTokens /\ [][NextTokens]_vars

\* the entry that create_public_pdf_url made for the token a request names,
\* if it made one: the path token with the text ".pdf" taken out
IssuedFor(path_token) ==
    LET token == RemovePdfText(path_token)
    IN  IF token \in TokenPool THEN tokens.issued[token] ELSE <<>>

MaxMtime == 2

\* every write of the request happens after the files were last written
NowMtime == MaxMtime + 1

ImageTask ==
    [fn |-> "extract_recipe_images_background", force_regenerate |-> FALSE]

PdfTask(force_regenerate) ==
    [fn |-> "generate_pdf_background", force_regenerate |-> force_regenerate]

InitSave ==
    /\ pc = "done"
    /\ page = [ingredients_height |-> 934, header_height |-> 60,
               ingredient_heights |-> <<>>, instruction_heights |-> <<>>]
    /\ recipe = [ingredients |-> <<>>, instructions |-> <<>>]
    /\ header_height = 0
    /\ remaining_right_column_height = 0
    /\ split_data = InitialSplitData([ingredients |-> <<>>,
                                      instructions |-> <<>>], FALSE)
    /\ result = "pending"
    /\ tasks = <<>>
    /\ pages = <<>>
    /\ cache = <<>>
    /\ clear_response = <<>>
    /\ tokens = <<>>
    /\ server \in
          [files    : [recipe : 0..MaxMtime, timestamps : 0..MaxMtime,
                       image : 0..MaxMtime, pdf : 0..MaxMtime],
           in_db    : BOOLEAN,       \* crud.get_recipe_by_video_id finds a row
           video    : [is_recipe : BOOLEAN, has_transcript : BOOLEAN],
           key_steps : BOOLEAN,      \* the recipe has key steps
           has_dish_visual : BOOLEAN, \* the timestamps name a dish_visual
           pc       : {"idle"},
           endpoint : {"none"},
           status   : {0},
           queue    : {<<>>},
           running  : {<<>>},
           pdf_outcome : {"none"},
           log      : {<<>>}]

\* main.py lines 419-442
PdfNeedsRegeneration(files) ==
    IF files.pdf > 0
    THEN \/ files.recipe > 0 /\ files.recipe > files.pdf
         \/ files.timestamps > 0 /\ files.timestamps > files.pdf
         \/ files.image > 0 /\ files.image > files.pdf
    ELSE files.recipe > 0

\* main.py lines 498-536: the add_task calls, in the order they are made
ScheduledTasksPdfFirst(existing_image, key_steps, existing_pdf, pdf_needs_regeneration, recipe_was_new) ==
    (IF ~existing_pdf \/ pdf_needs_regeneration \/ recipe_was_new
     THEN <<PdfTask((existing_pdf /\ pdf_needs_regeneration)
                        \/ recipe_was_new)>>
     ELSE <<>>)
    \o (IF ~existing_image /\ key_steps THEN <<ImageTask>> ELSE <<>>)

ScheduledTasks(existing_image, key_steps, existing_pdf, pdf_needs_regeneration, recipe_was_new) ==
    (IF ~existing_image /\ key_steps THEN <<ImageTask>> ELSE <<>>)
    \o (IF ~existing_pdf \/ pdf_needs_regeneration \/ recipe_was_new
        THEN <<PdfTask((existing_pdf /\ pdf_needs_regeneration)
                           \/ recipe_was_new)>>
        ELSE <<>>)

QueueEvent(task) ==
    IF task.fn = "generate_pdf_background" THEN "queue_pdf"
    ELSE "queue_image"

\* main.py lines 314-564; the handler has no await, so it runs in one step.
\* Line 381 calls extract_recipe_gemini(input_data, request.url,
\* force_regenerate=cache_cleared), but services.extract_recipe_gemini
\* (services.py line 120) takes two parameters: the call raises TypeError,
\* which line 560 turns into a 500 response.
SaveRecipeToCollection ==
    /\ server.pc = "idle"
    /\ LET cache_cleared == server.in_db /\ server.files.recipe = 0
           recipe_was_new == ~server.in_db \/ cache_cleared
           existing_image == server.files.image > 0
           existing_pdf == server.files.pdf > 0
           pdf_needs_regeneration == PdfNeedsRegeneration(server.files)
           scheduled == ScheduledTasks(existing_image, server.key_steps,
                            existing_pdf, pdf_needs_regeneration,
                            recipe_was_new)
       IN  IF recipe_was_new
           THEN server' = [server EXCEPT
                    !.pc = "responded", !.endpoint = "save",
                    !.status = IF ~server.video.is_recipe
                                    \/ ~server.video.has_transcript
                               THEN 400 ELSE 500]
           ELSE server' = [server EXCEPT
                    !.pc = "responded", !.endpoint = "save",
                    !.status = 200,
                    !.queue = scheduled,
                    !.log = [i \in 1..Len(scheduled) |->
                                QueueEvent(scheduled[i])]]
    /\ UNCHANGED <<engineVars, renderVars, tokens>>

\* main.py lines 872-916; extract_timestamps_gemini returns the cached
\* timestamps or asks the language model and stores the answer
\* (services.py lines 307-440); extract_best_frame returns the cached frame
\* or extracts and stores it (services.py lines 521-546); any exception is
\* a 500 response and no task is queued
ExtractVisuals(ok) ==
    /\ server.pc = "idle"
    /\ IF ~ok
       THEN server' = [server EXCEPT !.pc = "responded",
                                     !.endpoint = "visuals",
                                     !.status = 500]
       ELSE server' = [server EXCEPT
                !.pc = "responded", !.endpoint = "visuals",
                !.status = 200,
                !.files.timestamps = IF @ = 0 THEN NowMtime ELSE @,
                !.files.image = IF server.has_dish_visual /\ @ = 0
                                THEN NowMtime ELSE @,
                !.queue = <<PdfTask(FALSE)>>,
                !.log = (IF server.has_dish_visual
                         THEN <<"timestamps", "frame_extracted">>
                         ELSE <<"timestamps">>) \o <<"queue_pdf">>]
    /\ UNCHANGED <<engineVars, renderVars, tokens>>

StartEvent(task) ==
    IF task.fn = "generate_pdf_background" THEN "start_pdf"
    ELSE "start_image"

FinishEvent(task) ==
    IF task.fn = "generate_pdf_background" THEN "finish_pdf"
    ELSE "finish_image"

\* the next task of the queue starts when the response has been sent and
\* the task before it has returned
StartBackgroundTask ==
    /\ server.pc = "responded"
    /\ server.running = <<>>
    /\ server.queue # <<>>
    /\ server' = [server EXCEPT
           !.running = <<Head(server.queue)>>,
           !.queue = Tail(server.queue),
           !.log = Append(@, StartEvent(Head(server.queue)))]
    /\ UNCHANGED <<engineVars, renderVars, tokens>>

\* main.py lines 567-608: timestamps, then the dish_visual frame; an
\* exception is logged and swallowed
FinishImageTask(ok) ==
    /\ server.running = <<ImageTask>>
    /\ server' = [server EXCEPT
           !.running = <<>>,
           !.files.timestamps = IF ok /\ @ = 0 THEN NowMtime ELSE @,
           !.files.image = IF ok /\ server.has_dish_visual /\ @ = 0
                           THEN NowMtime ELSE @,
           !.log = Append(@, FinishEvent(ImageTask))]
    /\ UNCHANGED <<engineVars, renderVars, tokens>>

\* main.py lines 41-60 and pdf_service.py lines 353-376: the cached PDF is
\* returned unless force_regenerate; otherwise the PDF is rendered and
\* stored, or the failure is logged and swallowed
FinishPdfTask(ok) ==
    /\ server.running # <<>>
    /\ server.running[1].fn = "generate_pdf_background"
    /\ LET force_regenerate == server.running[1].force_regenerate
           outcome == IF ~force_regenerate /\ server.files.pdf > 0
                      THEN "loaded"
                      ELSE IF server.files.recipe = 0 \/ ~ok THEN "failed"
                      ELSE "rendered"
       IN  server' = [server EXCEPT
               !.running = <<>>,
               !.pdf_outcome = outcome,
               !.files.pdf = IF outcome = "rendered" THEN NowMtime ELSE @,
               !.log = Append(@, FinishEvent(server.running[1]))]
    /\ UNCHANGED <<engineVars, renderVars, tokens>>

NextSave ==
    \/ SaveRecipeToCollection
    \/ \E ok \in BOOLEAN : ExtractVisuals(ok)
    \/ StartBackgroundTask
    \/ \E ok \in BOOLEAN : FinishImageTask(ok)
    \/ \E ok \in BOOLEAN : FinishPdfTask(ok)

SpecSave == InitSave /\ [][NextSave]_vars

(***************************************************************************)
(* Properties of the scheduling (specification SpecSave).                  *)
(***************************************************************************)
Before(log, a, b) ==
    \A i \in 1..Len(log) :
        log[i] = b => \E j \in 1..(i - 1) : log[j] = a

\* C26: when one request triggers both the image extraction and the PDF
\* generation, the image task is queued before the PDF task and the PDF
\* task starts only after the image task has finished; in extract_visuals
\* the dish_visual frame is extracted before the PDF task is queued.
C26_PdfAfterVisuals ==
    /\ (Contains(server.log, "queue_image")
           /\ Contains(server.log, "queue_pdf")) =>
          /\ Before(server.log, "queue_image", "queue_pdf")
          /\ Before(server.log, "finish_image", "start_pdf")
    /\ (server.endpoint = "visuals" /\ server.has_dish_visual) =>
          /\ Before(server.log, "frame_extracted", "queue_pdf")
          /\ Before(server.log, "frame_extracted", "start_pdf")

\* save_recipe_to_collection queued both tasks and the PDF task has started
C26_Witness ==
    /\ server.endpoint = "save"
    /\ server.log = <<"queue_image", "queue_pdf", "start_image",
                      "finish_image", "start_pdf">>

\* the PDF tasks that the handler has queued
QueuedPdfTasks(queue) ==
    SelectSeq(queue, LAMBDA task : task.fn = "generate_pdf_background")

\* the cached PDF exists and recipe.json, timestamps.json or the
\* dish_visual frame is newer
StalePdf(files) ==
    /\ files.pdf > 0
    /\ \/ files.recipe > files.pdf
       \/ files.timestamps > files.pdf
       \/ files.image > files.pdf

\* the request has to extract the recipe (it is not in the database, or its
\* recipe.json was cleared), and the video is one the handler accepts
ExtractsRecipe(sv) ==
    /\ ~sv.in_db \/ sv.files.recipe = 0
    /\ sv.video.is_recipe /\ sv.video.has_transcript

\* the handler answers 400: it had to extract and the video is no recipe
\* video or has no transcript
RejectsVideo(sv) ==
    /\ ~sv.in_db \/ sv.files.recipe = 0
    /\ ~(sv.video.is_recipe /\ sv.video.has_transcript)

SaveHandled == server.pc = "idle" /\ server'.endpoint = "save"

\* C29: save_recipe_to_collection, for a video it does not reject, queues
\* one PDF task with force_regenerate = TRUE when the cached PDF is stale or
\* the recipe is extracted by this request, queues a PDF task when the PDF
\* is missing, and queues none when the PDF exists, is up to date and the
\* recipe is not new; a forced task never returns the cached PDF.
C29_StalePdfRegenerated ==
    [][/\ (SaveHandled /\ ~RejectsVideo(server)) =>
             /\ (StalePdf(server.files) \/ ExtractsRecipe(server)) =>
                    QueuedPdfTasks(server'.queue) = <<PdfTask(TRUE)>>
             /\ server.files.pdf = 0 =>
                    Len(QueuedPdfTasks(server'.queue)) = 1
             /\ (server.files.pdf > 0 /\ ~StalePdf(server.files)
                    /\ ~ExtractsRecipe(server)) =>
                    QueuedPdfTasks(server'.queue) = <<>>
       /\ (server.running = <<PdfTask(TRUE)>> /\ server'.running = <<>>) =>
             server'.pdf_outcome # "loaded"]_vars

\* the same decision for a recipe that is in the database and in the cache
C29_DecisionForStoredRecipe ==
    [][/\ (SaveHandled /\ server.in_db /\ server.files.recipe > 0) =>
             /\ StalePdf(server.files) =>
                    QueuedPdfTasks(server'.queue) = <<PdfTask(TRUE)>>
             /\ server.files.pdf = 0 =>
                    QueuedPdfTasks(server'.queue) = <<PdfTask(FALSE)>>
             /\ (server.files.pdf > 0 /\ ~StalePdf(server.files)) =>
                    QueuedPdfTasks(server'.queue) = <<>>
       /\ (server.running = <<PdfTask(TRUE)>> /\ server'.running = <<>>) =>
             server'.pdf_outcome # "loaded"]_vars

\* a video that is not in the database yet: the request is answered 500
\* and nothing is queued
C29_NewRecipeFails ==
    /\ server.endpoint = "save"
    /\ ~server.in_db
    /\ server.video.is_recipe /\ server.video.has_transcript
    /\ server.status = 500
    /\ server.queue = <<>> /\ server.log = <<>>

\* a stale PDF was replaced by the forced task
C29_StaleReplaced ==
    /\ server.endpoint = "save"
    /\ server.pdf_outcome = "rendered"
    /\ server.files.pdf = NowMtime
    /\ server.files.recipe = 2

====
